---------------------------- MODULE Spec2Model ----------------------------
(***************************************************************************)
(* Realtime JS console (src/main.js): a host page that runs the editor     *)
(* text in a fresh sandboxed iframe on every run and renders the Output    *)
(* messages the iframe posts back.                                         *)
(*                                                                         *)
(* Texts are sequences of one-character strings, so that formatting,       *)
(* joining and substring tests are computed and not assumed.               *)
(***************************************************************************)
EXTENDS Integers, Sequences, FiniteSets, TLC

(***************************************************************************)
(* Bounds of the model.                                                    *)
(***************************************************************************)
\* number of run() invocations explored
MaxRuns == 2
\* number of input events of the editor explored
MaxEdits == 1
\* number of messages of foreign windows explored
MaxForeign == 1
\* number of later actions of running code explored (console calls, direct
\* posts, messages to its own listener, attempts on the host)
MaxCtxSteps == 2
\* clicks on Load Cache and Clear explored
MaxClicks == 1
\* length of the texts typed
MaxLen == 4
\* keydown events rewriting the text explored
MaxKeys == 2

(***************************************************************************)
(* JavaScript values that cross the boundary.  Every value is a record of  *)
(* the same shape: t is the type tag, s a text payload (the characters of  *)
(* a string, the key of a one-key object, the message of an error), n the  *)
(* number of a number value, items the elements of an array or the value   *)
(* of the one key of an object.                                            *)
(***************************************************************************)
Val(t, s, n, items) == [t |-> t, s |-> s, n |-> n, items |-> items]
Str(s) == Val("str", s, 0, <<>>)
Num(n) == Val("num", <<>>, n, <<>>)
Arr(items) == Val("arr", <<>>, 0, items)
Obj(k, v) == Val("obj", k, 0, <<v>>)
Undefined == Val("undefined", <<>>, 0, <<>>)
\* an object that refers to itself: structured clone copies it, JSON cannot
Cyclic == Val("cyclic", <<>>, 0, <<>>)
\* a function: structured clone refuses it (DataCloneError)
Fn == Val("function", <<>>, 0, <<>>)
\* null (JSON gives the text null)
Null == Val("null", <<>>, 0, <<>>)
\* an object that refers to itself and whose own properties toString and
\* valueOf are numbers, as in o = { toString: 1, valueOf: 1 }; o.self = o.
\* Structured clone copies it; JSON cannot; String(o) finds no callable
\* conversion and throws a TypeError.
Opaque == Val("opaque", <<>>, 0, <<>>)
\* what format leaves behind when it throws instead of returning
Thrown == Val("thrown", <<>>, 0, <<>>)

\* the texts used by the submitted programs
TA == <<"a">>
TB == <<"b">>
TX == <<"x">>
TY == <<"y">>
TOld == <<"o">>

\* t contains x as a contiguous substring
Contains(t, x) ==
  \E i \in 1..(Len(t) + 1) :
    /\ i + Len(x) - 1 <= Len(t)
    /\ SubSeq(t, i, i + Len(x) - 1) = x

\* the decimal digits of a natural number, as String(n) and JSON give them
Digit(d) ==
  CASE d = 0 -> "0" [] d = 1 -> "1" [] d = 2 -> "2" [] d = 3 -> "3" [] d = 4 -> "4"
    [] d = 5 -> "5" [] d = 6 -> "6" [] d = 7 -> "7" [] d = 8 -> "8" [] OTHER -> "9"

RECURSIVE Digits(_)
Digits(n) == IF n < 10 THEN <<Digit(n)>> ELSE Digits(n \div 10) \o <<Digit(n % 10)>>

\* Array.prototype.join(sep) over texts
RECURSIVE Join(_, _)
Join(parts, sep) ==
  IF parts = <<>> THEN <<>>
  ELSE IF Len(parts) = 1 THEN parts[1]
  ELSE parts[1] \o sep \o Join(Tail(parts), sep)

\* JSON.stringify throws a TypeError on v (a cycle somewhere in it)
RECURSIVE JSONThrows(_)
JSONThrows(v) ==
  \/ v.t \in {"cyclic", "opaque"}
  \/ /\ v.t \in {"arr", "obj"}
     /\ \E i \in 1..Len(v.items) : JSONThrows(v.items[i])

\* JSON.stringify(v) is the value undefined and no text
JSONUndefined(v) == v.t \in {"undefined", "function"}

\* JSON.stringify(v) for a v on which it neither throws nor yields undefined
RECURSIVE JSONText(_)
JSONText(v) ==
  CASE v.t = "str" -> <<"\"">> \o v.s \o <<"\"">>
    [] v.t = "num" -> Digits(v.n)
    [] v.t = "null" -> <<"n", "u", "l", "l">>
    [] v.t = "arr" ->
         <<"[">> \o
         Join([i \in 1..Len(v.items) |->
                 IF JSONUndefined(v.items[i]) THEN <<"n", "u", "l", "l">>
                 ELSE JSONText(v.items[i])], <<",">>)
         \o <<"]">>
    [] v.t = "obj" ->
         IF JSONUndefined(v.items[1]) THEN <<"{", "}">>
         ELSE <<"{", "\"">> \o v.s \o <<"\"", ":">> \o JSONText(v.items[1]) \o <<"}">>
    [] OTHER -> <<>>

\* String(v) throws: no conversion of v to a primitive succeeds
StringThrows(v) == v.t = "opaque"

\* String(v), for a v on which it does not throw
ToStringJS(v) ==
  CASE v.t = "str" -> v.s
    [] v.t = "num" -> Digits(v.n)
    [] v.t = "null" -> <<"n", "u", "l", "l">>
    [] v.t = "undefined" -> <<"u", "n", "d", "e", "f", "i", "n", "e", "d">>
    [] v.t \in {"obj", "cyclic"} -> <<"[", "o", "b", "j", "e", "c", "t", " ", "O", "b", "j", "e", "c", "t", "]">>
    [] v.t = "arr" -> Join([i \in 1..Len(v.items) |-> IF v.items[i].t = "str" THEN v.items[i].s ELSE <<>>], <<",">>)
    [] OTHER -> <<"f">>

\* main.js format(v): a string as it is, else JSON.stringify(v), else (when
\* that throws) String(v).  The result is a JavaScript value and not always a
\* text: JSON.stringify(undefined) is undefined; and String(v) in the catch
\* block may throw in its turn (Thrown).
format(v) ==
  IF v.t = "str" THEN v
  ELSE IF JSONThrows(v) THEN (IF StringThrows(v) THEN Thrown ELSE Str(ToStringJS(v)))
  ELSE IF JSONUndefined(v) THEN Undefined
  ELSE Str(JSONText(v))

\* what Array.prototype.join writes for one element: nothing for undefined
JoinPiece(v) == IF v.t = "undefined" THEN <<>> ELSE v.s

\* parts.map(format)
formatted(parts) == [i \in 1..Len(parts) |-> format(parts[i])]

\* parts.map(format) throws: format throws on one of the parts
formatThrows(parts) == \E i \in 1..Len(parts) : format(parts[i]) = Thrown

\* printLine's text: parts.map(format).join(' ')
lineText(parts) == Join([i \in 1..Len(parts) |-> JoinPiece(formatted(parts)[i])], <<" ">>)

(***************************************************************************)
(* Transport messages.                                                     *)
(*   Output, context -> host: data is the posted object; nul says that the *)
(*   posted data is null, type "" that the field is absent, args Undefined *)
(*   that the field is absent.  tag is history only (who emitted it, from  *)
(*   which step of which execution): the code never reads it.              *)
(***************************************************************************)
Data(fromSandbox, type, args) ==
  [nul |-> FALSE, fromSandbox |-> fromSandbox, type |-> type, args |-> args]
NullData == [nul |-> TRUE, fromSandbox |-> FALSE, type |-> "", args |-> Undefined]

Tag(src, exec, step, what, text) ==
  [src |-> src, exec |-> exec, step |-> step, what |-> what, text |-> text]

Msg(data, tag) == [data |-> data, tag |-> tag]

Kinds == {"log", "info", "warn", "error"}

(***************************************************************************)
(* The submitted code.  The editor text is one of a few programs; Program  *)
(* gives what `new Function(code)` and `f()` do with it, as a list of      *)
(* steps: a console call, a throw of new Error(msg), an unhandled          *)
(* Promise.reject(reason), a timer that makes a console call later, and a  *)
(* direct parent.postMessage of some data ("post" posts, in turn, data     *)
(* without the sandbox tag, without a kind, without args, with args that   *)
(* is a number, and null).                                                 *)
(***************************************************************************)
Step(op, kind, args, data) == [op |-> op, kind |-> kind, args |-> args, data |-> data]
Call(kind, args) == Step("call", kind, args, NullData)
Throw(msg) == Step("throw", "", <<Str(msg)>>, NullData)
Reject(reason) == Step("reject", "", <<reason>>, NullData)
Later(kind, args) == Step("later", kind, args, NullData)
Post(data) == Step("post", "", <<>>, data)

Codes == {"", "hello", "syntax", "throw", "reject", "later", "fn", "post"}

Program(code) ==
  CASE code = "" -> [compiles |-> TRUE, steps |-> <<>>]
    [] code = "hello" -> [compiles |-> TRUE, steps |-> <<Call("log", <<Str(TA), Str(TB)>>)>>]
    [] code = "syntax" -> [compiles |-> FALSE, steps |-> <<>>]
    [] code = "throw" -> [compiles |-> TRUE, steps |-> <<Call("warn", <<Str(TA)>>), Throw(TX), Call("log", <<Str(TB)>>)>>]
    [] code = "reject" -> [compiles |-> TRUE, steps |-> <<Reject(Str(TY)), Call("info", <<Num(42)>>)>>]
    [] code = "later" -> [compiles |-> TRUE, steps |-> <<Later("log", <<Str(TOld)>>)>>]
    [] code = "fn" -> [compiles |-> TRUE, steps |-> <<Call("log", <<Fn>>)>>]
    [] code = "post" ->
         [compiles |-> TRUE,
          steps |-> <<Post(Data(FALSE, "log", Arr(<<Str(TA)>>))),
                      Post(Data(TRUE, "", Arr(<<Str(TA)>>))),
                      Post(Data(TRUE, "log", Undefined)),
                      Post(Data(TRUE, "log", Num(5))),
                      Post(NullData)>>]
    \* DEFAULT_CODE: four console calls and one more after 500 ms
    [] code = "example" ->
         [compiles |-> TRUE,
          steps |-> <<Call("log", <<Str(TA), Str(TB)>>), Call("info", <<Str(TA)>>),
                      Call("warn", <<Str(TA)>>), Call("error", <<Str(TA)>>),
                      Later("log", <<Str(TOld)>>)>>]
    \* "undefined" (the text of String(undefined)), "live" (code that installs
    \* timers and listeners and acts later): nothing synchronous
    [] OTHER -> [compiles |-> TRUE, steps |-> <<>>]

(***************************************************************************)
(* The script of the sandbox (the srcdoc of createSandbox).                *)
(***************************************************************************)
\* structured clone, which postMessage applies to the posted data, refuses v
RECURSIVE Cloneable(_)
Cloneable(v) ==
  /\ v.t # "function"
  /\ \A i \in 1..Len(v.items) : Cloneable(v.items[i])

\* send(type, args): parent.postMessage({ __fromSandbox: true, type, args }, '*')
sandboxSend(type, args, tag) == Msg(Data(TRUE, type, Arr(args)), tag)

\* err.stack of an Error object.  Its content is the engine's: V8 starts it
\* with "name: message", SpiderMonkey and JavaScriptCore give the frames only
\* (header says which).  It is never empty here.
Frames == <<"@", "f">>
ErrorName == <<"E", "r", "r", "o", "r">>
SyntaxErrorName == <<"S", "y", "n", "t", "a", "x">> \o ErrorName
DataCloneErrorName == <<"D", "a", "t", "a", "C", "l", "o", "n", "e">> \o ErrorName
CloneMessage == <<"c">>
Stack(name, msg, header) ==
  IF header THEN name \o <<":", " ">> \o msg \o Frames ELSE Frames

\* String(err && err.stack || err) for an Error object err
caughtText(name, msg, header) ==
  IF Stack(name, msg, header) # <<>> THEN Stack(name, msg, header)
  ELSE name \o <<":", " ">> \o msg

\* f(): the synchronous steps from step k on, inside the listener's try.
\* out are the Output messages posted, in order; async the work left pending.
\* A throw (of the code, or of send inside an interceptor) ends the steps and
\* the catch posts one error message.
RECURSIVE runSteps(_, _, _, _, _)
runSteps(steps, k, src, exec, header) ==
  IF k > Len(steps) THEN [out |-> <<>>, async |-> <<>>]
  ELSE
    LET st == steps[k]
        rest == runSteps(steps, k + 1, src, exec, header)
    IN CASE st.op = "call" ->
              \* wrap: try { fn.apply(console, a) } catch(_){} send(type, a)
              IF Cloneable(Arr(st.args))
              THEN [out |-> <<sandboxSend(st.kind, st.args, Tag(src, exec, k, "call", <<>>))>> \o rest.out,
                    async |-> rest.async]
              ELSE [out |-> <<sandboxSend("error",
                                   <<Str(caughtText(DataCloneErrorName, CloneMessage, header))>>,
                                   Tag(src, exec, k, "clone", CloneMessage))>>,
                    async |-> <<>>]
         [] st.op = "throw" ->
              [out |-> <<sandboxSend("error", <<Str(caughtText(ErrorName, st.args[1].s, header))>>,
                              Tag(src, exec, k, "throw", st.args[1].s))>>,
               async |-> <<>>]
         [] st.op = "post" ->
              [out |-> <<Msg(st.data, Tag(src, exec, k, "post", <<>>))>> \o rest.out,
               async |-> rest.async]
         [] OTHER ->
              \* "reject", "later": work that happens after f() has returned
              [out |-> rest.out,
               async |-> <<[step |-> st, tag |-> Tag(src, exec, k, st.op, <<>>)]>> \o rest.async]

\* the message listener of the sandbox on a RunRequest carrying code
execute(code, src, exec, header) ==
  IF ~Program(code).compiles
  THEN [out |-> <<sandboxSend("error", <<Str(caughtText(SyntaxErrorName, TX, header))>>,
                       Tag(src, exec, 0, "throw", TX))>>,
        async |-> <<>>]
  ELSE runSteps(Program(code).steps, 1, src, exec, header)

\* String(e.message || e.error) of the window 'error' listener
uncaughtText(name, msg) ==
  <<"U", "n", "c", "a", "u", "g", "h", "t", " ">> \o name \o <<":", " ">> \o msg

\* a pending piece of asynchronous work happens: the unhandledrejection
\* listener posts String(e.reason); a timer makes its console call
asyncOut(a) ==
  IF a.step.op = "reject"
  THEN <<sandboxSend("error", <<Str(ToStringJS(a.step.args[1]))>>,
              [a.tag EXCEPT !.text = a.step.args[1].s])>>
  ELSE IF Cloneable(Arr(a.step.args))
  THEN <<sandboxSend(a.step.kind, a.step.args, a.tag)>>
  ELSE <<sandboxSend("error", <<Str(uncaughtText(DataCloneErrorName, CloneMessage))>>,
                     [a.tag EXCEPT !.what = "clone", !.text = CloneMessage])>>

\* The data of a message to the sandbox's window: nul says the data is null,
\* runCode is data.__runCode, code is data.code: a text (t = "str"), absent
\* (t = "undefined") or an array holding one text (t = "arr"); name is the
\* text.
RunData(runCode, t, name) ==
  [nul |-> FALSE, runCode |-> runCode, code |-> [t |-> t, name |-> name]]
NullRunData == [nul |-> TRUE, runCode |-> FALSE, code |-> [t |-> "undefined", name |-> ""]]

\* { __runCode: true, code: text }, what the host's send posts
RunRequest(text) == RunData(TRUE, "str", text)

\* the sandbox's message listener goes on to execute:
\* if (!data || !data.__runCode) return;
sandboxAccepts(d) == ~d.nul /\ d.runCode

\* new Function(data.code): the body is String(data.code)
functionBody(c) == IF c.t = "undefined" THEN "undefined" ELSE c.name

(***************************************************************************)
(* The host page.                                                          *)
(***************************************************************************)
VARIABLES
  editor,       \* editor.value
  autoRun,      \* autoRunEl.checked
  iframe,       \* the module-level iframe: 0 is null, n the iframe of run n
  attached,     \* the iframes that are children of document.body
  phase,        \* per iframe: "none", "blank" (the initial about:blank document),
                \* "booted" (the srcdoc document, its script run), "gone"
  loadArmed,    \* iframes whose once-only load listener has not fired
  timers,       \* runs whose setTimeout(send, 0) has not fired
  inbox,        \* per iframe: RunRequests posted to its window, not yet delivered
  pending,      \* per iframe: asynchronous work of the executed code
  chan,         \* per iframe: the Outputs it has posted, in flight to the host
  display,      \* the lines of consoleEl, in order
  hostErrors,   \* exceptions raised by the host's message listener
  runs,         \* number of run() invocations so far
  edits,        \* number of input events so far
  foreignSent,  \* number of messages of foreign windows so far
  sentBy,       \* history: RunRequests posted by the callbacks armed by each run
  ran,          \* history: the code of each execution inside each iframe, in order
  runCode,      \* history: the editor text when each run() was invoked
  sandbox,      \* per iframe: the tokens of its sandbox attribute
  storage,      \* localStorage[LS_KEY]: <<>> when absent, else <<text>>
  navigated,    \* the host window has been navigated away from the page
  ranOn,        \* history: the message data each execution answered
  calls,        \* history: the calls of the console interceptors by running code
  ctxSteps,     \* number of later actions of running code so far
  installed,    \* per iframe: what its script has installed so far, in order
  clicks,       \* number of clicks on Load Cache and Clear (and Ctrl+Enter in the editor) so far
  last,         \* history: the latest of those events and what it met
  value,        \* editor.value, character by character, where the keys rewrite it
  selectionStart, \* editor.selectionStart
  selectionEnd,   \* editor.selectionEnd
  keys,         \* number of keydown events rewriting the text so far
  keyLog,       \* history: those keydown events, with the text before and after
  highlightPending, \* let highlightPending
  rafPending,   \* number of requestAnimationFrame callbacks requested and not yet run
  highlighted   \* the text refreshHighlight has rendered into highlightEl

vars == <<editor, autoRun, iframe, attached, phase, loadArmed, timers, inbox,
          pending, chan, display, hostErrors, runs, edits, foreignSent, sentBy,
          ran, runCode, sandbox, storage, navigated, ranOn, calls, ctxSteps,
          installed, clicks, last, value, selectionStart, selectionEnd, keys,
          keyLog, highlightPending, rafPending, highlighted>>

\* the variables of the dialogs' log, of the text under the keys, of the highlighter
dlgVars == <<clicks, last>>
editVars == <<value, selectionStart, selectionEnd, keys, keyLog>>
hlVars == <<highlightPending, rafPending, highlighted>>

FrameIds == 1..MaxRuns

\* clearConsole(): consoleEl.textContent = ''
clearConsoleKeepsLines == display
clearConsole == <<>>

\* printLine(type, ...parts): one more div.line with the joined text.  The
\* fields tag and data of a line are history: the message it was made from.
printLine(lines, type, parts, tag) ==
  Append(lines, [kind |-> type, text |-> lineText(parts), parts |-> formatted(parts),
                 tag |-> tag.tag, data |-> tag.data])

\* printLine(type, ...parts) throws (in parts.map(format)) before it appends
printLineThrows(parts) == formatThrows(parts)

\* JavaScript truthiness of a value
Truthy(v) ==
  CASE v.t = "undefined" -> FALSE
    [] v.t = "str" -> v.s # <<>>
    [] v.t = "num" -> v.n # 0
    [] OTHER -> TRUE

\* ...(v) spreads v: arrays and strings are iterable, the rest throws
Iterable(v) == v.t \in {"arr", "str"}
Spread(v) == IF v.t = "arr" THEN v.items ELSE [i \in 1..Len(v.s) |-> Str(<<v.s[i]>>)]

\* the host's window 'message' listener on message m: the lines afterwards and
\* whether the listener threw
onMessage(lines, m) ==
  LET data == m.data IN
  IF data.nul \/ ~data.fromSandbox THEN [lines |-> lines, threw |-> FALSE]
  ELSE LET type == IF data.type # "" THEN data.type ELSE "log"
           args == IF Truthy(data.args) THEN data.args ELSE Arr(<<>>)
       IN IF Iterable(args) /\ ~printLineThrows(Spread(args))
          THEN [lines |-> printLine(lines, type, Spread(args), m), threw |-> FALSE]
          ELSE [lines |-> lines, threw |-> TRUE]

\* createSandbox(): the children of document.body afterwards, new being the
\* iframe it creates
createSandboxNoRemove(att, cur, new) == att \cup {new}
createSandbox(att, cur, new) ==
  (IF cur # 0 /\ cur \in att THEN att \ {cur} ELSE att) \cup {new}

\* iframe.setAttribute('sandbox', 'allow-scripts')
sandboxAttrSameOrigin == {"allow-scripts", "allow-same-origin"}
sandboxAttr == {"allow-scripts"}

\* iframe.contentWindow is an object while the iframe is in the document
contentWindow(i) == i \in attached

\* the script of the srcdoc document: what it installs, in order (the four
\* interceptors, the two error listeners, then the message listener)
sandboxScriptListenerOnly == <<"message">>
sandboxScript ==
  <<"console.log", "console.info", "console.warn", "console.error",
    "error", "unhandledrejection", "message">>

\* refreshHighlight(): the code it hands to highlight(); text is the editor's
\* text and chars its characters where they are followed
refreshHighlight(text, chars) ==
  [text |-> text,
   code |-> IF chars # <<>> /\ chars[Len(chars)] = "\n" THEN chars \o <<" ">> ELSE chars]

\* no click on Load Cache or Clear yet
NoEvent == [event |-> "none", confirmed |-> FALSE, cached |-> FALSE, blank |-> FALSE,
            autoRun |-> FALSE, runs |-> 0]

\* the page as loaded, for what the dialogs, the keys and the highlighter
\* keep: line 298 has rendered the empty editor
pageLoaded ==
  /\ clicks = 0
  /\ last = NoEvent
  /\ value = <<>>
  /\ selectionStart = 0
  /\ selectionEnd = 0
  /\ keys = 0
  /\ keyLog = <<>>
  /\ highlightPending = FALSE
  /\ rafPending = 0
  /\ highlighted = refreshHighlight(editor, <<>>)

Init ==
  /\ editor = ""
  /\ autoRun \in BOOLEAN
  /\ iframe = 0
  /\ attached = {}
  /\ phase = [i \in FrameIds |-> "none"]
  /\ loadArmed = {}
  /\ timers = {}
  /\ inbox = [i \in FrameIds |-> <<>>]
  /\ pending = [i \in FrameIds |-> <<>>]
  /\ chan = [i \in FrameIds |-> <<>>]
  /\ display = <<>>
  /\ hostErrors = 0
  /\ runs = 0
  /\ edits = 0
  /\ foreignSent = 0
  /\ sentBy = [i \in FrameIds |-> 0]
  /\ ran = [i \in FrameIds |-> <<>>]
  /\ runCode = [i \in FrameIds |-> ""]
  /\ sandbox = [i \in FrameIds |-> {}]
  /\ storage = <<>>
  /\ navigated = FALSE
  /\ ranOn = [i \in FrameIds |-> <<>>]
  /\ calls = <<>>
  /\ ctxSteps = 0
  /\ installed = [i \in FrameIds |-> <<>>]
  /\ pageLoaded

\* run(), invoked while the editor holds text
run(text) ==
  LET new == runs + 1
      att == createSandbox(attached, iframe, new)
      removed == (attached \cup {new}) \ att
  IN /\ runs < MaxRuns
     /\ display' = clearConsole
     /\ attached' = att
     /\ iframe' = new
     /\ phase' = [i \in FrameIds |->
                    IF i = new THEN "blank" ELSE IF i \in removed THEN "gone" ELSE phase[i]]
     \* a removed iframe loses its browsing context: nothing is delivered to it
     \* and nothing runs in it any more; what it has posted stays in flight
     /\ inbox' = [i \in FrameIds |-> IF i \in removed THEN <<>> ELSE inbox[i]]
     /\ pending' = [i \in FrameIds |-> IF i \in removed THEN <<>> ELSE pending[i]]
     \* if (iframe.contentWindow) setTimeout(send, 0): the new iframe is attached
     /\ timers' = IF new \in att THEN timers \cup {new} ELSE timers
     /\ loadArmed' = loadArmed \cup {new}
     /\ runs' = new
     /\ runCode' = [runCode EXCEPT ![new] = text]
     /\ sandbox' = [sandbox EXCEPT ![new] = sandboxAttr]
     /\ UNCHANGED <<chan, hostErrors, foreignSent, sentBy, ran, storage, navigated,
                    ranOn, calls, ctxSteps, installed>>

noRun ==
  UNCHANGED <<iframe, attached, phase, loadArmed, timers, inbox, pending, chan,
              display, hostErrors, runs, foreignSent, sentBy, ran, runCode,
              sandbox, storage, navigated, ranOn, calls, ctxSteps, installed>>

\* scheduleHighlight(): one animation frame callback is requested unless one
\* is pending already
scheduleHighlightAlways ==
  /\ highlightPending' = TRUE
  /\ rafPending' = rafPending + 1
  /\ UNCHANGED highlighted
scheduleHighlight ==
  /\ IF highlightPending
     THEN UNCHANGED <<highlightPending, rafPending>>
     ELSE /\ highlightPending' = TRUE
          /\ rafPending' = rafPending + 1
  /\ UNCHANGED highlighted

\* runBtn 'click'
RunClick ==
  /\ run(editor)
  /\ UNCHANGED <<editor, autoRun, edits, dlgVars, editVars, hlVars>>

\* editor 'input': the user replaces the text
Input(c) ==
  /\ edits < MaxEdits
  /\ edits' = edits + 1
  /\ c # editor
  /\ editor' = c
  /\ IF autoRun THEN run(c) ELSE noRun
  /\ scheduleHighlight
  /\ UNCHANGED <<autoRun, dlgVars, editVars>>

\* autoRunEl 'change'
AutoRunChange ==
  /\ autoRun' = ~autoRun
  /\ IF autoRun' THEN run(editor) ELSE noRun
  /\ scheduleHighlight
  /\ UNCHANGED <<editor, edits, dlgVars, editVars>>

\* a handler that only empties the console
clearOnly ==
  /\ display' = clearConsole
  /\ UNCHANGED <<iframe, attached, phase, loadArmed, timers, inbox, pending, chan,
                 hostErrors, runs, foreignSent, sentBy, ran, runCode,
                 sandbox, storage, navigated, ranOn, calls, ctxSteps, installed>>

\* exampleBtn 'click'; viaKey: through Ctrl/Cmd+E, which asks before it
\* overwrites a text that is neither blank nor the example
ExampleClickUngated(viaKey, confirmed) ==
  /\ edits < MaxEdits
  /\ ~(viaKey /\ editor # "" /\ editor # "example" /\ ~confirmed)
  /\ edits' = edits + 1
  /\ editor' = "example"
  /\ run("example")
  /\ scheduleHighlight
  /\ UNCHANGED <<autoRun, dlgVars, editVars>>
ExampleClick(viaKey, confirmed) ==
  /\ edits < MaxEdits
  /\ ~(viaKey /\ editor # "" /\ editor # "example" /\ ~confirmed)
  /\ edits' = edits + 1
  /\ editor' = "example"
  /\ IF autoRun THEN run("example") ELSE noRun
  /\ scheduleHighlight
  /\ UNCHANGED <<autoRun, dlgVars, editVars>>

\* saveBtn 'click' (also Ctrl/Cmd+S); ok: localStorage.setItem did not raise
SaveClick(ok) ==
  /\ storage' = IF ok THEN <<editor>> ELSE storage
  /\ UNCHANGED <<editor, autoRun, edits, iframe, attached, phase, loadArmed, timers,
                 inbox, pending, chan, display, hostErrors, runs, foreignSent, sentBy,
                 ran, runCode, sandbox, navigated, ranOn, calls, ctxSteps,
                 installed, dlgVars, editVars, hlVars>>

\* what a click on Load Cache or Clear met: the answer to confirm(), whether
\* a text was cached, whether the editor was blank, Auto Run, and the number
\* of runs once the handler has returned
Event(name, confirmed, runsAfter) ==
  [event |-> name, confirmed |-> confirmed, cached |-> storage # <<>>,
   blank |-> editor = "", autoRun |-> autoRun, runs |-> runsAfter]

\* loadBtn 'click' (also Ctrl/Cmd+L); confirmed: the answer to confirm(),
\* asked when a text is cached
LoadClickUnasked(confirmed) ==
  /\ clicks < MaxClicks
  /\ clicks' = clicks + 1
  /\ IF storage = <<>>
     THEN /\ noRun
          /\ UNCHANGED <<editor, hlVars>>
     ELSE /\ editor' = storage[1]
          /\ IF autoRun THEN run(storage[1]) ELSE clearOnly
          /\ scheduleHighlight
  /\ last' = Event("load", confirmed, runs')
  /\ UNCHANGED <<autoRun, edits, editVars>>
LoadClick(confirmed) ==
  /\ clicks < MaxClicks
  /\ clicks' = clicks + 1
  /\ IF storage = <<>> \/ ~confirmed
     THEN /\ noRun
          /\ UNCHANGED <<editor, hlVars>>
     ELSE /\ editor' = storage[1]
          /\ IF autoRun THEN run(storage[1]) ELSE clearOnly
          /\ scheduleHighlight
  /\ last' = Event("load", confirmed, runs')
  /\ UNCHANGED <<autoRun, edits, editVars>>

\* clearBtn 'click'; confirmed: the answer to confirm(), asked when the text
\* is not blank
ClearClick(confirmed) ==
  /\ clicks < MaxClicks
  /\ clicks' = clicks + 1
  /\ IF editor # "" /\ ~confirmed
     THEN /\ noRun
          /\ UNCHANGED <<editor, hlVars>>
     ELSE /\ editor' = ""
          /\ IF autoRun THEN run("") ELSE clearOnly
          /\ scheduleHighlight
  /\ last' = Event("clear", confirmed, runs')
  /\ UNCHANGED <<autoRun, edits, editVars>>

\* the keys whose handlers rewrite the text themselves: Tab and Shift+Tab,
\* an opening bracket or quote (pairing), Backspace inside a pair, Enter,
\* a multi-line paste, Ctrl/Cmd+G and Ctrl/Cmd+/.  Each ends with
\* if (autoRunEl.checked) run(); c is the text it leaves (Shift+Tab may leave
\* the text as it was).
EditKeys == {"tab", "pair", "backspace", "enter", "paste", "quickLog", "comment"}
KeyEdit(key, c) ==
  /\ edits < MaxEdits
  /\ edits' = edits + 1
  /\ key # "tab" => c # editor
  /\ editor' = c
  /\ IF autoRun THEN run(c) ELSE noRun
  /\ scheduleHighlight
  /\ UNCHANGED <<autoRun, dlgVars, editVars>>

\* Ctrl/Cmd+Enter with the focus outside the editor
CtrlEnter ==
  /\ run(editor)
  /\ UNCHANGED <<editor, autoRun, edits, dlgVars, editVars, hlVars>>

\* Ctrl/Cmd+A with the focus outside the editor (inside it the handler
\* returns and the browser selects all)
CtrlA ==
  /\ autoRun' = ~autoRun
  /\ IF autoRun' THEN run(editor) ELSE noRun
  /\ UNCHANGED <<editor, edits, dlgVars, editVars, hlVars>>

\* the send closure of run(), called by the callback that run `by` armed
send(by) ==
  /\ IF iframe # 0 /\ contentWindow(iframe)
     THEN /\ inbox' = [inbox EXCEPT ![iframe] =
                         Append(@, [code |-> editor,
                                    win |-> IF phase[iframe] = "blank" THEN "blank" ELSE "doc",
                                    by |-> by])]
          /\ sentBy' = [sentBy EXCEPT ![by] = @ + 1]
     ELSE UNCHANGED <<inbox, sentBy>>
  /\ UNCHANGED <<editor, autoRun, iframe, attached, phase, pending, chan, display,
                 hostErrors, runs, edits, foreignSent, ran, runCode, sandbox,
                 storage, navigated, ranOn, calls, ctxSteps, installed, dlgVars,
                 editVars, hlVars>>

\* the timer of setTimeout(send, 0) fires
TimerFire(n) ==
  /\ n \in timers
  /\ timers' = timers \ {n}
  /\ send(n)
  /\ UNCHANGED loadArmed

\* the iframe's load event fires: its document is loaded, so its script has run
LoadFire(i) ==
  /\ i \in attached
  /\ phase[i] = "booted"
  /\ i \in loadArmed
  /\ loadArmed' = loadArmed \ {i}
  /\ send(i)
  /\ UNCHANGED timers

(***************************************************************************)
(* The iframe: navigation, boot, delivery of RunRequests, asynchronous     *)
(* work of the submitted code.                                             *)
(***************************************************************************)
hostAlone ==
  UNCHANGED <<editor, autoRun, iframe, attached, loadArmed, timers, display,
              hostErrors, runs, edits, foreignSent, sentBy, runCode, sandbox,
              storage, navigated, dlgVars, editVars, hlVars>>

\* the srcdoc document replaces the initial about:blank one (what was posted
\* to that window is lost with it) and its script runs: interceptors, error
\* listeners, then the message listener
Boot(i) ==
  /\ i \in attached
  /\ phase[i] = "blank"
  /\ phase' = [phase EXCEPT ![i] = "booted"]
  /\ installed' = [installed EXCEPT ![i] = sandboxScript]
  /\ UNCHANGED <<inbox, pending, chan, ran, ranOn, calls, ctxSteps>>
  /\ hostAlone

\* the window of iframe i has a 'message' listener
listening(i) == \E k \in 1..Len(installed[i]) : installed[i][k] = "message"

\* a RunRequest reaches the window it was posted to.  Only a booted srcdoc
\* window has the listener; the listener executes the code.
CtxDeliver(i) ==
  /\ i \in attached
  /\ inbox[i] # <<>>
  /\ inbox' = [inbox EXCEPT ![i] = Tail(@)]
  /\ LET m == Head(inbox[i]) IN
     IF m.win = "doc" /\ listening(i) /\ sandboxAccepts(RunRequest(m.code))
     THEN \E header \in BOOLEAN :
            LET body == functionBody(RunRequest(m.code).code)
                r == execute(body, i, Len(ran[i]) + 1, header)
            IN /\ chan' = [chan EXCEPT ![i] = @ \o r.out]
               /\ pending' = [pending EXCEPT ![i] = @ \o r.async]
               /\ ran' = [ran EXCEPT ![i] = Append(@, body)]
               /\ ranOn' = [ranOn EXCEPT ![i] = Append(@, RunRequest(m.code))]
     ELSE UNCHANGED <<chan, pending, ran, ranOn>>
  /\ UNCHANGED <<phase, calls, ctxSteps, installed>>
  /\ hostAlone

\* the oldest pending asynchronous work of the code in iframe i happens
CtxAsync(i) ==
  /\ i \in attached
  /\ phase[i] = "booted"
  /\ pending[i] # <<>>
  /\ pending' = [pending EXCEPT ![i] = Tail(@)]
  /\ chan' = [chan EXCEPT ![i] = @ \o asyncOut(Head(pending[i]))]
  /\ UNCHANGED <<phase, inbox, ran, ranOn, calls, ctxSteps, installed>>
  /\ hostAlone

(***************************************************************************)
(* What code that stays alive in the iframe (timers, listeners, promises)  *)
(* does later on: it calls the console interceptors, posts to the parent   *)
(* directly, receives messages on its window, and tries to reach the host. *)
(***************************************************************************)
\* the code of iframe i is alive: the iframe is attached, its document has
\* run the script (scripts are allowed) and a RunRequest has been executed
alive(i) ==
  /\ i \in attached
  /\ phase[i] = "booted"
  /\ "allow-scripts" \in sandbox[i]
  /\ ran[i] # <<>>

\* the argument lists of the console calls explored
ArgLists ==
  { <<Num(42)>>, <<Obj(TA, Num(1))>>, <<Str(TA), Str(TB)>>, <<Undefined>>,
    <<Str(TA), Cyclic, Str(TB)>>, <<Str(TA), Opaque, Str(TB)>>, <<Fn>> }

\* the console calls explored: console.log of each argument list, and each
\* of the four interceptors on one of them
ConsoleCalls ==
  {[kind |-> "log", args |-> a] : a \in ArgLists}
    \cup {[kind |-> k, args |-> <<Str(TA), Str(TB)>>] : k \in Kinds}

\* console[kind](...args) through the interceptor installed by the script:
\*   wrap = (fn, type) => (...a) => { try { fn.apply(console, a) } catch(_){} send(type, a) }
\* nativeThrows says that the native console method raises.  The catch block
\* swallows that; send raises a DataCloneError when args cannot be cloned,
\* and that one leaves the interceptor: the code did not catch it, so the
\* window 'error' listener posts it.
wrap(kind, args, nativeThrows, tag) ==
  IF Cloneable(Arr(args))
  THEN [out |-> <<sandboxSend(kind, args, tag)>>, forwarded |-> TRUE, raised |-> FALSE]
  ELSE [out |-> <<sandboxSend("error", <<Str(uncaughtText(DataCloneErrorName, CloneMessage))>>,
                              [tag EXCEPT !.what = "clone", !.text = CloneMessage])>>,
        forwarded |-> FALSE, raised |-> TRUE]

ctxAlone ==
  UNCHANGED <<editor, autoRun, iframe, attached, loadArmed, timers, display,
              hostErrors, runs, edits, foreignSent, sentBy, runCode, sandbox,
              storage, navigated, phase, inbox, pending, installed, dlgVars,
              editVars, hlVars>>

ConsoleCall(i, kind, args, nativeThrows) ==
  /\ alive(i)
  /\ ctxSteps < MaxCtxSteps
  /\ ctxSteps' = ctxSteps + 1
  /\ LET tag == Tag(i, 0, ctxSteps + 1, "live", <<>>)
         r == wrap(kind, args, nativeThrows, tag)
     IN /\ chan' = [chan EXCEPT ![i] = @ \o r.out]
        /\ calls' = Append(calls, [kind |-> kind, args |-> args, native |-> nativeThrows,
                                   tag |-> tag, forwarded |-> r.forwarded,
                                   raised |-> r.raised])
  /\ UNCHANGED <<ran, ranOn>>
  /\ ctxAlone

\* what the code posts with parent.postMessage(d, '*') itself
PostData ==
  { Data(TRUE, "debug", Arr(<<Str(TA)>>)),
    Data(TRUE, "log", Arr(<<Str(TB)>>)) }

CtxPost(i, d) ==
  /\ alive(i)
  /\ ctxSteps < MaxCtxSteps
  /\ ctxSteps' = ctxSteps + 1
  /\ chan' = [chan EXCEPT ![i] = Append(@, Msg(d, Tag(i, 0, ctxSteps + 1, "post", <<>>)))]
  /\ UNCHANGED <<ran, ranOn, calls>>
  /\ ctxAlone

\* the data of the messages that reach the window of the iframe other than
\* the host's RunRequest: the code posts to its own window, or a window that
\* holds a reference to the frame posts to it
RunDatas ==
  { NullRunData, RunData(FALSE, "str", "hello"), RunData(TRUE, "str", "hello"),
    RunData(TRUE, "undefined", ""), RunData(TRUE, "arr", "hello") }

\* the sandbox's message listener runs on data d
CtxMessage(i, d) ==
  /\ alive(i)
  /\ ctxSteps < MaxCtxSteps
  /\ ctxSteps' = ctxSteps + 1
  /\ IF sandboxAccepts(d)
     THEN \E header \in BOOLEAN :
            LET body == functionBody(d.code)
                r == execute(body, i, Len(ran[i]) + 1, header)
            IN /\ chan' = [chan EXCEPT ![i] = @ \o r.out]
               /\ pending' = [pending EXCEPT ![i] = @ \o r.async]
               /\ ran' = [ran EXCEPT ![i] = Append(@, body)]
               /\ ranOn' = [ranOn EXCEPT ![i] = Append(@, d)]
     ELSE UNCHANGED <<chan, pending, ran, ranOn>>
  /\ UNCHANGED <<editor, autoRun, iframe, attached, loadArmed, timers, display,
                 hostErrors, runs, edits, foreignSent, sentBy, runCode, sandbox,
                 storage, navigated, phase, inbox, calls, installed, dlgVars,
                 editVars, hlVars>>

\* what the sandbox attribute lets a document do to the host: without
\* allow-same-origin its origin is opaque, so the parent's document and
\* storage raise a SecurityError; the top window cannot be navigated without
\* allow-top-navigation (or a way into the parent's document)
Attempts == {"document", "storage", "navigate"}
permits(tokens, what) ==
  IF what = "navigate"
  THEN "allow-top-navigation" \in tokens \/ "allow-same-origin" \in tokens
  ELSE "allow-same-origin" \in tokens

SecurityErrorName == <<"S", "e", "c", "u", "r", "i", "t", "y">> \o ErrorName

\* the code tries to write the editor through parent.document, to write
\* localStorage, or to navigate top; what is refused raises in the code,
\* which did not catch it
CtxTamper(i, what) ==
  /\ alive(i)
  /\ ctxSteps < MaxCtxSteps
  /\ ctxSteps' = ctxSteps + 1
  /\ IF permits(sandbox[i], what)
     THEN /\ editor' = IF what = "document" THEN "tampered" ELSE editor
          /\ storage' = IF what = "storage" THEN <<"tampered">> ELSE storage
          /\ navigated' = IF what = "navigate" THEN TRUE ELSE navigated
          /\ UNCHANGED chan
     ELSE /\ chan' = [chan EXCEPT ![i] =
                        Append(@, sandboxSend("error",
                                     <<Str(uncaughtText(SecurityErrorName, TX))>>,
                                     Tag(i, 0, ctxSteps + 1, "denied", <<>>)))]
          /\ UNCHANGED <<editor, storage, navigated>>
  /\ UNCHANGED <<autoRun, iframe, attached, loadArmed, timers, display,
                 hostErrors, runs, edits, foreignSent, sentBy, runCode, sandbox,
                 phase, inbox, pending, ran, ranOn, calls, installed, dlgVars,
                 editVars, hlVars>>

(***************************************************************************)
(* Messages arriving at the host window.                                   *)
(***************************************************************************)
\* what a window that is not one of the page's iframes may post
ForeignData ==
  { Data(TRUE, "log", Arr(<<Str(TA)>>)),
    Data(FALSE, "log", Arr(<<Str(TA)>>)) }

\* a message posted by a foreign window arrives at the host's 'message'
\* listener (the page cannot observe it before that)
ForeignMessage(d) ==
  /\ foreignSent < MaxForeign
  /\ foreignSent' = foreignSent + 1
  /\ LET r == onMessage(display, Msg(d, Tag(0, 0, 0, "foreign", <<>>))) IN
     /\ display' = r.lines
     /\ hostErrors' = IF r.threw THEN hostErrors + 1 ELSE hostErrors
  /\ UNCHANGED <<editor, autoRun, iframe, attached, phase, loadArmed, timers, inbox,
                 pending, chan, runs, edits, sentBy, ran, runCode, sandbox, storage,
                 navigated, ranOn, calls, ctxSteps, installed, dlgVars, editVars,
                 hlVars>>

\* the host's 'message' listener runs on the oldest message in flight from
\* iframe src
OnMessage(src) ==
  /\ chan[src] # <<>>
  /\ chan' = [chan EXCEPT ![src] = Tail(@)]
  /\ LET r == onMessage(display, Head(chan[src])) IN
     /\ display' = r.lines
     /\ hostErrors' = IF r.threw THEN hostErrors + 1 ELSE hostErrors
  /\ UNCHANGED <<editor, autoRun, iframe, attached, phase, loadArmed, timers, inbox,
                 pending, runs, edits, foreignSent, sentBy, ran, runCode, sandbox,
                 storage, navigated, ranOn, calls, ctxSteps, installed, dlgVars,
                 editVars, hlVars>>

(***************************************************************************)
(* The keys that rewrite the text: editor.value character by character,    *)
(* with the selection.  Where these are followed, editor names the text    *)
(* that value spells.                                                      *)
(***************************************************************************)
\* the characters of the texts explored
Chars == {" ", "/", "a", "\n"}

RECURSIVE TextsUpTo(_)
TextsUpTo(n) ==
  IF n = 0 THEN {<<>>}
  ELSE LET shorter == TextsUpTo(n - 1)
       IN shorter \cup {Append(t, c) : t \in {u \in shorter : Len(u) = n - 1}, c \in Chars}

\* text.slice(a, b)
slice(v, a, b) == IF a >= b THEN <<>> ELSE SubSeq(v, a + 1, b)

\* text.indexOf(ch, from): -1 when there is none
indexOf(v, ch, from) ==
  LET hits == {k \in from..(Len(v) - 1) : v[k + 1] = ch}
  IN IF hits = {} THEN -1 ELSE CHOOSE k \in hits : \A j \in hits : k <= j

\* text.lastIndexOf(ch, from): the search starts at from, and a negative
\* from counts as 0
lastIndexOf(v, ch, from) ==
  LET first == IF from < 0 THEN 0 ELSE from
      hits == {k \in 0..first : k < Len(v) /\ v[k + 1] = ch}
  IN IF hits = {} THEN -1 ELSE CHOOSE k \in hits : \A j \in hits : j <= k

\* text.split(/\n/) and lines.join('\n')
RECURSIVE split(_)
split(v) ==
  LET k == indexOf(v, "\n", 0)
  IN IF k = -1 THEN <<v>> ELSE <<slice(v, 0, k)>> \o split(slice(v, k + 1, Len(v)))

RECURSIVE joinLines(_)
joinLines(ls) ==
  IF Len(ls) = 1 THEN ls[1] ELSE ls[1] \o <<"\n">> \o joinLines(Tail(ls))

\* the length of the match of /^\s*/ and of /^[ \t]*/
RECURSIVE leadingSpace(_)
leadingSpace(l) ==
  IF l # <<>> /\ Head(l) \in {" ", "\t", "\n"} THEN 1 + leadingSpace(Tail(l)) ELSE 0

RECURSIVE leadingBlanks(_)
leadingBlanks(l) ==
  IF l # <<>> /\ Head(l) \in {" ", "\t"} THEN 1 + leadingBlanks(Tail(l)) ELSE 0

\* l.trim() === ''
blank(l) == leadingSpace(l) = Len(l)

\* /^\s*\/\//.test(l)
commented(l) ==
  LET n == leadingSpace(l)
  IN Len(l) >= n + 2 /\ l[n + 1] = "/" /\ l[n + 2] = "/"

\* l.replace(/^(\s*)\/\//, '$1') and l.replace(/^(\s*)/, '$1//')
uncomment(l) ==
  LET n == leadingSpace(l)
  IN IF commented(l) THEN slice(l, 0, n) \o slice(l, n + 2, Len(l)) ELSE l

comment(l) ==
  LET n == leadingSpace(l)
  IN slice(l, 0, n) \o <<"/", "/">> \o slice(l, n, Len(l))

\* the selection after editor.value = ... (the caret goes to the end of the
\* len characters), editor.selectionStart = s, editor.selectionEnd = e: the
\* attributes are unsigned longs, what lies past the end counts as the end,
\* and an end at or before the start collapses the selection to the end
setSelection(len, s, e) ==
  LET s1 == IF s < 0 \/ s > len THEN len ELSE s
      e1 == IF e < 0 \/ e > len THEN len ELSE e
  IN [selectionStart |-> IF e1 <= s1 THEN e1 ELSE s1, selectionEnd |-> e1]

edited(v, s, e) ==
  [value |-> v,
   selectionStart |-> setSelection(Len(v), s, e).selectionStart,
   selectionEnd |-> setSelection(Len(v), s, e).selectionEnd]

\* toggleComment(): the text and the selection afterwards
toggleComment(v, s, e) ==
  LET lineStart == lastIndexOf(v, "\n", s - 1) + 1
      found == indexOf(v, "\n", e)
      lineEnd == IF found = -1 THEN Len(v) ELSE found
      block == slice(v, lineStart, lineEnd)
      lines == split(block)
      allCommented == \A j \in 1..Len(lines) : commented(lines[j]) \/ blank(lines[j])
      updated == joinLines([j \in 1..Len(lines) |->
                              IF blank(lines[j]) THEN lines[j]
                              ELSE IF allCommented THEN uncomment(lines[j])
                              ELSE comment(lines[j])])
      before == slice(v, 0, lineStart)
      after == slice(v, lineEnd, Len(v))
  IN edited(before \o updated \o after, lineStart, lineStart + Len(updated))

\* const indent = '    '
indent == <<" ", " ", " ", " ">>

\* line.startsWith of n spaces
startsWith(l, n) == Len(l) >= n /\ \A j \in 1..n : l[j] = " "

\* what Shift+Tab takes off a line: 4, 3, 2 or 1 leading spaces
removable(l) ==
  IF startsWith(l, 4) THEN 4
  ELSE IF startsWith(l, 3) THEN 3
  ELSE IF startsWith(l, 2) THEN 2
  ELSE IF startsWith(l, 1) THEN 1
  ELSE 0

\* the Tab keydown listener: the text and the selection afterwards
tabKey(v, start, end, shiftKey) ==
  LET before == slice(v, 0, start)
      selected == slice(v, start, end)
      after == slice(v, end, Len(v))
  IN IF indexOf(selected, "\n", 0) # -1
     THEN LET lines == split(selected) IN
          IF shiftKey
          THEN LET outdented == joinLines([j \in 1..Len(lines) |->
                                  slice(lines[j], removable(lines[j]), Len(lines[j]))])
                   removedFirst == removable(lines[1])
                   newStart == start - removedFirst
                   newEnd == start - removedFirst + Len(outdented)
               IN edited(before \o outdented \o after,
                         IF newStart < Len(before) THEN newStart ELSE Len(before),
                         newEnd)
          ELSE LET indented == joinLines([j \in 1..Len(lines) |-> indent \o lines[j]])
               IN edited(before \o indented \o after,
                         start + Len(indent), start + Len(indented))
     ELSE IF shiftKey
          THEN LET lineStart == lastIndexOf(before, "\n", Len(before)) + 1
                   line == slice(v, lineStart, end)
                   remove == removable(line)
               IN IF remove # 0
                  THEN edited(slice(v, 0, lineStart) \o slice(line, remove, Len(line)) \o after,
                              IF start - remove > lineStart THEN start - remove ELSE lineStart,
                              end - remove)
                  ELSE [value |-> v, selectionStart |-> start, selectionEnd |-> end]
          ELSE edited(before \o indent \o after, start + Len(indent), start + Len(indent))

\* /[\{\[\(]\s*$/.test(line)
RECURSIVE opensBlock(_)
opensBlock(l) ==
  /\ l # <<>>
  /\ IF l[Len(l)] \in {" ", "\t", "\n"} THEN opensBlock(slice(l, 0, Len(l) - 1))
     ELSE l[Len(l)] \in {"{", "[", "("}

\* the Enter keydown listener past its guard (the selection is a caret at
\* start): the text and the selection afterwards
enterKey(v, start) ==
  LET before == slice(v, 0, start)
      after == slice(v, start, Len(v))
      lineStart == lastIndexOf(before, "\n", Len(before)) + 1
      currentLine == slice(before, lineStart, Len(before))
      baseIndent == slice(currentLine, 0, leadingBlanks(currentLine))
      opensExtra == opensBlock(currentLine)
      extra == IF opensExtra THEN indent ELSE <<>>
  IN IF opensExtra /\ after # <<>> /\ after[1] \in {"}", "]", ")"}
     THEN LET insert == <<"\n">> \o baseIndent \o extra \o <<"\n">> \o baseIndent
              caretPos == start + 1 + Len(baseIndent) + Len(extra)
          IN edited(before \o insert \o after, caretPos, caretPos)
     ELSE LET insert == <<"\n">> \o baseIndent \o extra
          IN edited(before \o insert \o after, start + Len(insert), start + Len(insert))

\* run() twice in a row, as two listeners of one event invoke it
runTwice(text) ==
  LET new1 == runs + 1
      new2 == runs + 2
      att1 == createSandbox(attached, iframe, new1)
      att2 == createSandbox(att1, new1, new2)
      removed == (attached \cup {new1, new2}) \ att2
  IN /\ runs + 1 < MaxRuns
     /\ display' = clearConsole
     /\ attached' = att2
     /\ iframe' = new2
     /\ phase' = [i \in FrameIds |->
                    IF i = new2 THEN "blank"
                    ELSE IF i \in removed THEN "gone"
                    ELSE IF i = new1 THEN "blank" ELSE phase[i]]
     /\ inbox' = [i \in FrameIds |-> IF i \in removed THEN <<>> ELSE inbox[i]]
     /\ pending' = [i \in FrameIds |-> IF i \in removed THEN <<>> ELSE pending[i]]
     /\ timers' = timers \cup (IF new1 \in att1 THEN {new1} ELSE {})
                         \cup (IF new2 \in att2 THEN {new2} ELSE {})
     /\ loadArmed' = loadArmed \cup {new1, new2}
     /\ runs' = new2
     /\ runCode' = [runCode EXCEPT ![new1] = text, ![new2] = text]
     /\ sandbox' = [sandbox EXCEPT ![new1] = sandboxAttr, ![new2] = sandboxAttr]
     /\ UNCHANGED <<chan, hostErrors, foreignSent, sentBy, ran, storage, navigated,
                    ranOn, calls, ctxSteps, installed>>

\* a keydown event handled: the text, the selection and the number of runs
\* before and after it
Key(name, r) ==
  [key |-> name, value |-> value, selectionStart |-> selectionStart,
   selectionEnd |-> selectionEnd, autoRun |-> autoRun, runs |-> runs,
   valueAfter |-> r.value, startAfter |-> r.selectionStart,
   endAfter |-> r.selectionEnd, runsAfter |-> runs']

\* what every listener of a key that rewrites the text does once it has the
\* text r.value and the selection of r
keyDone(name, r) ==
  /\ keys < MaxKeys
  /\ keys' = keys + 1
  /\ value' = r.value
  /\ selectionStart' = r.selectionStart
  /\ selectionEnd' = r.selectionEnd
  /\ keyLog' = Append(keyLog, Key(name, r))
  /\ UNCHANGED <<editor, autoRun, edits, dlgVars>>

\* editor 'input': the user types or pastes text t and leaves the selection
\* at s..e
TypeText(t, s, e) ==
  /\ edits < MaxEdits
  /\ edits' = edits + 1
  /\ t # value
  /\ editor' = "typed"
  /\ value' = t
  /\ selectionStart' = s
  /\ selectionEnd' = e
  /\ IF autoRun THEN run("typed") ELSE noRun
  /\ scheduleHighlight
  /\ UNCHANGED <<autoRun, dlgVars, keys, keyLog>>

\* Tab or Shift+Tab with the focus in the editor
TabKey(shiftKey) ==
  /\ IF autoRun THEN run(editor) ELSE noRun
  /\ scheduleHighlight
  /\ keyDone(IF shiftKey THEN "Shift+Tab" ELSE "Tab",
             tabKey(value, selectionStart, selectionEnd, shiftKey))

\* Ctrl/Cmd+/ with the focus in the editor
CommentKey ==
  /\ IF autoRun THEN run(editor) ELSE noRun
  /\ scheduleHighlight
  /\ keyDone("Ctrl+/", toggleComment(value, selectionStart, selectionEnd))

\* Ctrl/Cmd+Enter with the focus in the editor: the keydown event reaches
\* the editor's listeners first, the Enter listener among them, which does
\* not look at ctrlKey, then the window's listener, which invokes run()
CtrlEnterInEditor ==
  IF selectionStart = selectionEnd
  THEN /\ IF autoRun THEN runTwice(editor) ELSE run(editor)
       /\ scheduleHighlight
       /\ keyDone("Ctrl+Enter", enterKey(value, selectionStart))
  ELSE /\ run(editor)
       /\ UNCHANGED hlVars
       /\ keyDone("Ctrl+Enter", [value |-> value, selectionStart |-> selectionStart,
                                 selectionEnd |-> selectionEnd])

\* the selections of a text
Selections(t) == {se \in (0..Len(t)) \X (0..Len(t)) : se[1] <= se[2]}

\* the user types one of the texts explored
Typing ==
  /\ edits < MaxEdits
  /\ \E t \in TextsUpTo(MaxLen) : \E se \in Selections(t) : TypeText(t, se[1], se[2])

NextEdit ==
  \/ Typing
  \/ \E shiftKey \in BOOLEAN : TabKey(shiftKey)
  \/ CommentKey
  \/ CtrlEnterInEditor

\* the user typing a text, selecting in it and pressing the keys that
\* rewrite it
SpecEdit == Init /\ [][NextEdit]_vars

Next ==
  \/ RunClick
  \/ \E c \in Codes : Input(c)
  \/ AutoRunChange
  \/ \E n \in FrameIds : TimerFire(n)
  \/ \E i \in FrameIds : LoadFire(i)
  \/ \E i \in FrameIds : Boot(i)
  \/ \E i \in FrameIds : CtxDeliver(i)
  \/ \E i \in FrameIds : CtxAsync(i)
  \/ \E src \in FrameIds : OnMessage(src)

\* the page with no other window posting to it
Spec == Init /\ [][Next]_vars

\* the page after one click on Run with code that stays alive: the timer
\* fired before the srcdoc document replaced the blank one (that RunRequest
\* was lost), the load event fired, its RunRequest was executed
ctxRunning ==
  /\ editor = "live"
  /\ iframe = 1
  /\ attached = {1}
  /\ phase = [i \in FrameIds |-> IF i = 1 THEN "booted" ELSE "none"]
  /\ loadArmed = {}
  /\ timers = {}
  /\ inbox = [i \in FrameIds |-> <<>>]
  /\ pending = [i \in FrameIds |-> <<>>]
  /\ chan = [i \in FrameIds |-> <<>>]
  /\ display = <<>>
  /\ hostErrors = 0
  /\ runs = 1
  /\ edits = 1
  /\ foreignSent = 0
  /\ sentBy = [i \in FrameIds |-> IF i = 1 THEN 2 ELSE 0]
  /\ ran = [i \in FrameIds |-> IF i = 1 THEN <<"live">> ELSE <<>>]
  /\ runCode = [i \in FrameIds |-> IF i = 1 THEN "live" ELSE ""]
  /\ sandbox = [i \in FrameIds |-> IF i = 1 THEN sandboxAttr ELSE {}]
  /\ navigated = FALSE
  /\ ranOn = [i \in FrameIds |-> IF i = 1 THEN <<RunRequest("live")>> ELSE <<>>]
  /\ calls = <<>>
  /\ ctxSteps = 0
  /\ installed = [i \in FrameIds |-> IF i = 1 THEN sandboxScript ELSE <<>>]
  /\ pageLoaded

InitCtx ==
  /\ ctxRunning
  /\ autoRun = FALSE
  /\ storage = <<>>

NextCtx ==
  \/ RunClick
  \/ \E i \in FrameIds, c \in ConsoleCalls, nativeThrows \in BOOLEAN :
       ConsoleCall(i, c.kind, c.args, nativeThrows)
  \/ \E i \in FrameIds, d \in PostData : CtxPost(i, d)
  \/ \E i \in FrameIds, d \in RunDatas : CtxMessage(i, d)
  \/ \E i \in FrameIds, what \in Attempts : CtxTamper(i, what)
  \/ \E src \in FrameIds : OnMessage(src)

\* the running code and the host's listener
SpecCtx == InitCtx /\ [][NextCtx]_vars

\* the texts a previous visit may have left in localStorage
StoredTexts == {<<>>, <<"hello">>, <<"throw">>}

\* the page as loaded: nothing has run; localStorage is what it was
InitUI ==
  /\ editor = ""
  /\ autoRun \in BOOLEAN
  /\ iframe = 0
  /\ attached = {}
  /\ phase = [i \in FrameIds |-> "none"]
  /\ loadArmed = {}
  /\ timers = {}
  /\ inbox = [i \in FrameIds |-> <<>>]
  /\ pending = [i \in FrameIds |-> <<>>]
  /\ chan = [i \in FrameIds |-> <<>>]
  /\ display = <<>>
  /\ hostErrors = 0
  /\ runs = 0
  /\ edits = 0
  /\ foreignSent = 0
  /\ sentBy = [i \in FrameIds |-> 0]
  /\ ran = [i \in FrameIds |-> <<>>]
  /\ runCode = [i \in FrameIds |-> ""]
  /\ sandbox = [i \in FrameIds |-> {}]
  /\ storage \in StoredTexts
  /\ navigated = FALSE
  /\ ranOn = [i \in FrameIds |-> <<>>]
  /\ calls = <<>>
  /\ ctxSteps = 0
  /\ installed = [i \in FrameIds |-> <<>>]
  /\ pageLoaded

\* every handler of the page that may invoke run()
NextUI ==
  \/ RunClick
  \/ CtrlEnter
  \/ \E c \in Codes : Input(c)
  \/ AutoRunChange
  \/ CtrlA
  \/ \E viaKey \in BOOLEAN, confirmed \in BOOLEAN : ExampleClick(viaKey, confirmed)
  \/ \E ok \in BOOLEAN : SaveClick(ok)
  \/ \E confirmed \in BOOLEAN : LoadClick(confirmed)
  \/ \E confirmed \in BOOLEAN : ClearClick(confirmed)
  \/ \E key \in EditKeys, c \in Codes : KeyEdit(key, c)

\* the user at the controls of the page
SpecUI == InitUI /\ [][NextUI]_vars

\* the page after one run of code that stays alive, whichever way Auto Run
\* stands and whatever a previous visit left in localStorage
InitCache ==
  /\ ctxRunning
  /\ autoRun \in BOOLEAN
  /\ storage \in StoredTexts

NextCache ==
  \/ RunClick
  \/ \E ok \in BOOLEAN : SaveClick(ok)
  \/ \E confirmed \in BOOLEAN : LoadClick(confirmed)
  \/ \E confirmed \in BOOLEAN : ClearClick(confirmed)
  \/ \E i \in FrameIds, nativeThrows \in BOOLEAN :
       ConsoleCall(i, "log", <<Str(TA), Str(TB)>>, nativeThrows)
  \/ \E src \in FrameIds : OnMessage(src)

\* the cache and Clear buttons while the code of the last run is alive
SpecCache == InitCache /\ [][NextCache]_vars

\* exportBtn 'click' (also Ctrl/Cmd+D): the download leaves the page as it
\* is; the listener ends with scheduleHighlight()
ExportClick ==
  /\ scheduleHighlight
  /\ noRun
  /\ UNCHANGED <<editor, autoRun, edits, dlgVars, editVars>>

\* the browser runs the callback handed to requestAnimationFrame:
\*   highlightPending = false; refreshHighlight()
RafFire ==
  /\ rafPending > 0
  /\ rafPending' = rafPending - 1
  /\ highlightPending' = FALSE
  /\ highlighted' = refreshHighlight(editor, value)
  /\ noRun
  /\ UNCHANGED <<editor, autoRun, edits, dlgVars, editVars>>

\* the texts typed while the highlighter is followed
HighlightTexts == {"hello", "throw"}

\* every listener that calls scheduleHighlight(), and the animation frame
NextHighlight ==
  \/ \E c \in HighlightTexts : Input(c)
  \/ AutoRunChange
  \/ \E viaKey \in BOOLEAN, confirmed \in BOOLEAN : ExampleClick(viaKey, confirmed)
  \/ \E confirmed \in BOOLEAN : LoadClick(confirmed)
  \/ \E confirmed \in BOOLEAN : ClearClick(confirmed)
  \/ \E key \in EditKeys, c \in HighlightTexts : KeyEdit(key, c)
  \/ ExportClick
  \/ RafFire

\* the user at the controls and the browser painting: a requested animation
\* frame callback is run in the end
SpecHighlight == InitUI /\ [][NextHighlight]_vars /\ WF_vars(RafFire)

NextForeign ==
  \/ Next
  \/ \E d \in ForeignData : ForeignMessage(d)

\* the page with a foreign window (an opener, an embedding page, another
\* frame) that posts to it
SpecForeign == Init /\ [][NextForeign]_vars

(***************************************************************************)
(* Properties.                                                             *)
(***************************************************************************)
\* the lines on the display that carry tag t
LinesOf(t) == {k \in 1..Len(display) : display[k].tag = t}
\* the Outputs of iframe t.src still in flight that carry tag t
InFlight(t) == {k \in 1..Len(chan[t.src]) : chan[t.src][k].tag = t}
\* the Output with tag t is on the display or on its way, once
Once(t) == Cardinality(LinesOf(t)) + Cardinality(InFlight(t)) = 1
\* step k of the steps is reached: no throw statement precedes it
Reached(steps, k) == \A j \in 1..(k - 1) : steps[j].op # "throw"

\* C1: once run N has cleared the display, no line that comes from an Output
\* of the context of an earlier run is on the display: every line that comes
\* from a context comes from the current one.
NoCrossRunLeak ==
  \A k \in 1..Len(display) :
    display[k].tag.src # 0 => display[k].tag.src = iframe

\* C2: the callbacks armed by one run() post the RunRequest at most once.
RunRequestAtMostOnce == \A n \in FrameIds : sentBy[n] <= 1

\* C3: at most one iframe is attached to the host document, and it is the
\* current one.
AtMostOneContext ==
  /\ Cardinality(attached) <= 1
  /\ attached \subseteq {iframe}

\* C3 witness: a second run has replaced the iframe of the first, which had
\* booted, and only the new one is attached.
SecondContextReplacedFirst ==
  /\ runs = 2
  /\ phase[1] = "gone"
  /\ ran[1] # <<>>
  /\ attached = {2}

\* C4: every step that is an invocation of run() leaves the display empty,
\* whatever it held.
RunEmptiesDisplay == [][runs' # runs => display' = <<>>]_vars

\* C4 witness: the first run executed console.log("a", "b") once, its one
\* Output has been handled by the host (nothing of it is in flight, no foreign
\* message was ever posted), and after the second run() the display is empty:
\* the line was on the display and the second run() removed it.
SecondRunClearedALine ==
  /\ runs = 2
  /\ ran[1] = <<"hello">>
  /\ chan[1] = <<>>
  /\ foreignSent = 0
  /\ ran[2] = <<>>
  /\ display = <<>>

\* a message with the shape of an Output: the sandbox tag, a kind, and args
\* that is a sequence
WellFormed(data) ==
  /\ ~data.nul
  /\ data.fromSandbox
  /\ data.type # ""
  /\ data.args.t = "arr"

\* C5: a message that lacks the tag, the kind or the args, or whose args is
\* no sequence, appends no line and raises nothing in the host's listener
\* (only such a message can make the listener raise).
MalformedDropped ==
  /\ hostErrors = 0
  /\ \A k \in 1..Len(display) : WellFormed(display[k].data)

\* C6: a message whose sender is not an iframe of the page appends no line.
ForeignDiscarded == \A k \in 1..Len(display) : display[k].tag.src # 0

\* C7: a synchronous throw with message x (a compile error included) gives
\* exactly one line, of kind error, containing x; while its context is the
\* current one that line is on the display or on its way, once.
ThrowYieldsOneErrorLine ==
  /\ \A k \in 1..Len(display) :
       display[k].tag.what = "throw" =>
         /\ display[k].kind = "error"
         /\ Contains(display[k].text, display[k].tag.text)
         /\ Cardinality(LinesOf(display[k].tag)) = 1
  /\ iframe # 0 =>
       \A e \in 1..Len(ran[iframe]) :
         LET prog == Program(ran[iframe][e]) IN
         /\ ~prog.compiles => Once(Tag(iframe, e, 0, "throw", TX))
         /\ \A k \in 1..Len(prog.steps) :
              (prog.steps[k].op = "throw" /\ Reached(prog.steps, k)) =>
                Once(Tag(iframe, e, k, "throw", prog.steps[k].args[1].s))

\* the kinds of line that the synchronous part of the code produces
SyncWhat == {"call", "throw", "clone", "post"}

\* C8: an unhandled rejection with reason y gives exactly one line, of kind
\* error, containing y, and every line of the synchronous output of the same
\* run is above it.
RejectionAfterSyncOutput ==
  \A k \in 1..Len(display) :
    display[k].tag.what = "reject" =>
      /\ display[k].kind = "error"
      /\ Contains(display[k].text, display[k].tag.text)
      /\ Cardinality(LinesOf(display[k].tag)) = 1
      /\ \A j \in 1..Len(display) :
           (display[j].tag.src = display[k].tag.src /\ display[j].tag.what \in SyncWhat)
             => j < k

\* C9: from a run() invoked on an empty editor until the next run() the
\* display stays empty.
EmptyRunKeepsDisplayEmpty ==
  (runs >= 1 /\ runCode[runs] = "") => display = <<>>

\* C10: every console call made by the code gives exactly one line, of the
\* kind of the channel, whose text is the formatted arguments joined by one
\* space; while its context is the current one that line is on the display or
\* on its way, once.
CallYieldsOneLine ==
  /\ \A k \in 1..Len(display) :
       display[k].tag.what \in {"call", "later"} =>
         LET t == display[k].tag
             st == Program(ran[t.src][t.exec]).steps[t.step]
         IN /\ display[k].kind = st.kind
            /\ display[k].text = lineText(st.args)
            /\ Cardinality(LinesOf(t)) = 1
  /\ iframe # 0 =>
       \A e \in 1..Len(ran[iframe]) :
         LET steps == Program(ran[iframe][e]).steps IN
         \A k \in 1..Len(steps) :
           /\ (steps[k].op = "call" /\ Reached(steps, k)) =>
                Once(Tag(iframe, e, k, "call", <<>>))
           /\ ( /\ steps[k].op = "later"
                /\ Reached(steps, k)
                /\ \A p \in 1..Len(pending[iframe]) :
                     pending[iframe][p].tag # Tag(iframe, e, k, "later", <<>>) ) =>
                Once(Tag(iframe, e, k, "later", <<>>))

\* the lines that come from calls of the console interceptors by running code
\* (ConsoleCall), with the arguments the call was made with
CallLines == {k \in 1..Len(display) : display[k].tag.what = "live"}
ArgsOf(k) == display[k].data.args.items

\* C11: format gives a text for every argument: the argument itself when it
\* is a string, its JSON serialization when it has one; log(42) renders as
\* 42 and log({a:1}) as {"a":1}.
FormatGivesText ==
  \A k \in CallLines :
    /\ Len(display[k].parts) = Len(ArgsOf(k))
    /\ \A j \in 1..Len(ArgsOf(k)) :
         /\ display[k].parts[j].t = "str"
         /\ ArgsOf(k)[j].t = "str" => display[k].parts[j] = ArgsOf(k)[j]
         /\ (ArgsOf(k)[j].t # "str" /\ ~JSONThrows(ArgsOf(k)[j])) =>
              display[k].parts[j].s = JSONText(ArgsOf(k)[j])
    /\ ArgsOf(k) = <<Num(42)>> => display[k].text = <<"4", "2">>
    /\ ArgsOf(k) = <<Obj(TA, Num(1))>> =>
         display[k].text = <<"{", "\"", "a", "\"", ":", "1", "}">>

\* the call has an argument that JSON cannot serialize
Unserializable(args) == \E j \in 1..Len(args) : JSONThrows(args[j])

\* C12: an argument that fails to serialize never makes the host's listener
\* raise; the line of its event is appended all the same (it is on the
\* display or on its way, once), with a text in the place of that argument
\* and every string argument of the event in its own place.
FallbackKeepsLine ==
  /\ hostErrors = 0
  /\ \A c \in 1..Len(calls) :
       ( /\ calls[c].forwarded
         /\ Unserializable(calls[c].args)
         /\ iframe = calls[c].tag.src ) => Once(calls[c].tag)
  /\ \A k \in CallLines :
       Unserializable(ArgsOf(k)) =>
         /\ Len(display[k].parts) = Len(ArgsOf(k))
         /\ \A j \in 1..Len(ArgsOf(k)) :
              /\ display[k].parts[j].t = "str"
              /\ ArgsOf(k)[j].t = "str" => display[k].parts[j] = ArgsOf(k)[j]

\* the host's listener accepts the data: if (!data || !data.__fromSandbox) return
Accepted(data) == ~data.nul /\ data.fromSandbox

\* C13: the display changes only by a clear (a run) or by one more line at
\* its end, the lines it had staying as they were and where they were; and
\* every message the host accepts appends one line, made from that message.
DisplayAppendOnly ==
  [][ /\ display' # display =>
           \/ runs' # runs /\ display' = <<>>
           \/ /\ Len(display') = Len(display) + 1
              /\ SubSeq(display', 1, Len(display)) = display
      /\ \A src \in FrameIds :
           ( /\ chan[src] # <<>>
             /\ chan'[src] = Tail(chan[src])
             /\ Accepted(Head(chan[src]).data) ) =>
               /\ Len(display') = Len(display) + 1
               /\ display'[Len(display')].tag = Head(chan[src]).tag
               /\ display'[Len(display')].data = Head(chan[src]).data
    ]_vars

\* C14: once the load event of the current iframe has fired, the code is
\* executed in it at most once, and exactly once when no RunRequest is left
\* undelivered in it.
ReadyRunExecutesOnce ==
  \A i \in FrameIds :
    (i = iframe /\ i \in attached /\ phase[i] = "booted" /\ i \notin loadArmed) =>
      /\ Len(ran[i]) <= 1
      /\ inbox[i] = <<>> => Len(ran[i]) = 1

\* C15: every execution in the iframe of a run executes the text the editor
\* held when that run() was invoked.
RunExecutesSnapshot ==
  \A i \in FrameIds : \A e \in 1..Len(ran[i]) : ran[i][e] = runCode[i]

\* a step of the code in an iframe
CtxStep ==
  \/ ctxSteps' # ctxSteps
  \/ ran' # ran
  \/ phase' # phase /\ runs' = runs
  \/ pending' # pending /\ runs' = runs

\* C16: every attached iframe carries exactly the token allow-scripts, and a
\* step of the code in an iframe changes nothing of the host: not the editor
\* text, the Auto Run box, localStorage, the location of the page, the
\* iframes of the document, nor (directly) the display, which changes only
\* when the host's listener handles a message.
ContextChangesNoHostState ==
  [][ /\ \A i \in attached' : sandbox'[i] = {"allow-scripts"}
      /\ CtxStep => UNCHANGED <<editor, autoRun, storage, navigated, iframe,
                                attached, runs, display, hostErrors>>
    ]_vars

\* C16 witness: running code has tried to reach the host, was refused, and the
\* error that the refusal raised in it is a line of the display.
RefusedAttemptShown ==
  \E k \in 1..Len(display) :
    /\ display[k].tag.what = "denied"
    /\ display[k].kind = "error"
    /\ editor = "live" /\ storage = <<>> /\ ~navigated

\* C17: every execution in an iframe answers a well-formed RunRequest: the
\* run discriminator with a code that is a text.
OnlyRunRequestsExecute ==
  \A i \in FrameIds : \A e \in 1..Len(ranOn[i]) :
    /\ ~ranOn[i][e].nul
    /\ ranOn[i][e].runCode
    /\ ranOn[i][e].code.t = "str"

\* C18: every call of an interceptor posts its Output to the host, with the
\* kind and the arguments of the call, and raises nothing in the calling
\* code, whether the native method raised or not.
CallAlwaysForwarded ==
  [][ calls' # calls =>
        LET c == calls'[Len(calls')] IN
        /\ chan'[c.tag.src] = Append(chan[c.tag.src], sandboxSend(c.kind, c.args, c.tag))
        /\ ~c.raised
    ]_vars

\* C19: the kind of every line of the display is one of log, info, warn,
\* error.
LineKindsKnown == \A k \in 1..Len(display) : display[k].kind \in Kinds

\* C20: a step that starts a run while Auto Run is (left) unchecked is a
\* click on Run or Ctrl/Cmd+Enter: an event that edits nothing and does not
\* touch the Auto Run box; and nothing has run when the page is loaded.
RunsGatedByAutoRun ==
  [][ runs' # runs =>
        \/ autoRun'
        \/ editor' = editor /\ edits' = edits /\ autoRun' = autoRun
    ]_vars

\* C20 witness: with Auto Run unchecked the user has edited the text and no
\* run has been started.
EditedWithoutRun ==
  /\ ~autoRun
  /\ edits = 1
  /\ editor = "example"
  /\ runs = 0
  /\ iframe = 0

\* C24: a RunRequest on its way to iframe i was posted by a callback that
\* the run which created iframe i armed (a callback of a superseded run
\* posts nothing).
SendOnlyToOwnContext ==
  \A i \in FrameIds : \A k \in 1..Len(inbox[i]) : inbox[i][k].by = i

\* what the script installs before the message listener
Interceptors ==
  {"console.log", "console.info", "console.warn", "console.error",
   "error", "unhandledrejection"}

Installed(i) == {installed[i][k] : k \in 1..Len(installed[i])}

\* C25: whenever code is executed in iframe i, the four interceptors and the
\* two error listeners are installed there, the message listener was
\* installed last, and the RunRequest executed was posted to the window of
\* the booted document (one posted to the window before boot is not executed).
CodeRunsAfterBoot ==
  [][\A i \in FrameIds :
       ran'[i] # ran[i] =>
         /\ Interceptors \subseteq Installed(i)
         /\ installed[i][Len(installed[i])] = "message"
         /\ inbox[i] # <<>>
         /\ Head(inbox[i]).win = "doc"]_vars

\* one run: its timer posted to the blank window and that RunRequest was
\* dropped, its load callback posted again and that one was executed
EarlyRequestDropped ==
  /\ runs = 1
  /\ sentBy[1] = 2
  /\ inbox[1] = <<>>
  /\ Len(ran[1]) = 1
  /\ Interceptors \subseteq Installed(1)

\* the latest click on Load Cache or Clear emptied the console without a run
ClearedWithoutRun ==
  /\ ~last.autoRun
  /\ \/ last.event = "load" /\ last.cached /\ last.confirmed
     \/ last.event = "clear" /\ (last.blank \/ last.confirmed)

\* C21: a click on Load Cache puts the cached text into the editor when a
\* text is cached and the user confirms; otherwise it leaves the editor text,
\* the display and the current context as they were.
LoadOnlyWhenConfirmed ==
  [][(clicks' # clicks /\ last'.event = "load") =>
       IF last'.cached /\ last'.confirmed
       THEN editor' = storage[1]
       ELSE /\ editor' = editor
            /\ display' = display
            /\ <<iframe, attached, phase, inbox, pending, runs>>'
                 = <<iframe, attached, phase, inbox, pending, runs>>]_vars

\* the user declined to load the cached text over an editor and a display
\* that held something else
LoadDeclined ==
  /\ last.event = "load"
  /\ last.cached
  /\ ~last.confirmed
  /\ display # <<>>
  /\ <<editor>> # storage

\* C26: once the console has been cleared without a new run (Clear, or a
\* confirmed Load Cache, Auto Run unchecked), the display is empty as long as
\* no run has begun.
ClearedStaysEmpty ==
  (ClearedWithoutRun /\ runs = last.runs) => display = <<>>

\* the selection a key met spans more than one line
MultiLine(k) ==
  indexOf(slice(k.value, k.selectionStart, k.selectionEnd), "\n", 0) # -1

\* C22: Tab on a multi-line selection followed immediately by Shift+Tab on
\* the selection Tab left restores the text Tab met.
TabThenShiftTabRestores ==
  \A n \in 1..(Len(keyLog) - 1) :
    (keyLog[n].key = "Tab" /\ MultiLine(keyLog[n]) /\ keyLog[n + 1].key = "Shift+Tab")
      => keyLog[n + 1].valueAfter = keyLog[n].value

\* C23: Ctrl+/ pressed twice in a row restores the text the first one met.
ToggleTwiceRestores ==
  \A n \in 1..(Len(keyLog) - 1) :
    (keyLog[n].key = "Ctrl+/" /\ keyLog[n + 1].key = "Ctrl+/")
      => keyLog[n + 1].valueAfter = keyLog[n].value

\* C27: Ctrl/Cmd+Enter in the editor starts exactly one run and leaves the
\* text and the selection as they were.
CtrlEnterRunsOnce ==
  \A n \in 1..Len(keyLog) :
    keyLog[n].key = "Ctrl+Enter"
      => /\ keyLog[n].runsAfter = keyLog[n].runs + 1
         /\ keyLog[n].valueAfter = keyLog[n].value
         /\ keyLog[n].startAfter = keyLog[n].selectionStart
         /\ keyLog[n].endAfter = keyLog[n].selectionEnd

\* the index of the line of text v that position p lies in
lineOf(v, p) == Len(split(slice(v, 0, p)))

\* C28: Ctrl+/ keeps the number of lines, keeps every blank line as it is,
\* and keeps every line before the first selected line and after the last
\* selected line.
ToggleChangesSelectedLinesOnly ==
  \A n \in 1..Len(keyLog) :
    keyLog[n].key = "Ctrl+/"
      => LET old == split(keyLog[n].value)
             new == split(keyLog[n].valueAfter)
             first == lineOf(keyLog[n].value, keyLog[n].selectionStart)
             final == lineOf(keyLog[n].value, keyLog[n].selectionEnd)
         IN /\ Len(new) = Len(old)
            /\ \A j \in 1..Len(old) :
                 (blank(old[j]) \/ j < first \/ j > final) => new[j] = old[j]

\* C29: at most one animation frame callback is pending, highlightPending
\* is true exactly while one is, the highlighted text is the editor's unless
\* a callback is pending, the callback renders the text the editor holds
\* when it runs, and a pending callback leads to a highlighted text that is
\* the editor's.
HighlightCoalesced ==
  /\ [](/\ rafPending <= 1
        /\ highlightPending <=> rafPending = 1
        /\ highlightPending \/ highlighted = refreshHighlight(editor, value))
  /\ [][rafPending' < rafPending => highlighted' = refreshHighlight(editor', value')]_vars
  /\ (highlightPending ~> highlighted = refreshHighlight(editor, value))

\* the cached text was loaded and the user typed another one, and no frame
\* has been painted since the page was loaded: the second scheduleHighlight
\* call found the callback of the first pending
SecondCallCoalesced ==
  /\ highlightPending
  /\ rafPending = 1
  /\ highlighted = refreshHighlight("", <<>>)
  /\ last.event = "load" /\ last.cached /\ last.confirmed
  /\ edits = 1
  /\ editor = "throw"
  /\ storage = <<"hello">>

=============================================================================
